---- MODULE Spec2Model ----
(***************************************************************************)
(* State-machine model of gee_pipeline: the monthly mosaic reducer, the    *)
(* cube assembler, the run orchestrator and the three external samplers    *)
(* (SILO / SOF / SLGA).  Each component has its own specification over the *)
(* shared variable list; a specification leaves the other components'      *)
(* variables at their idle values.                                         *)
(***************************************************************************)
EXTENDS Integers, Sequences, FiniteSets, TLC

VARIABLES
    \* ---- timeseries.safe_monthly_mosaics
    ts,          \* input collection: sequence of acquisition days, collection order
    monthly,     \* output collection: sequence of [date, members]
    mpc,         \* "idle" | "start" | "done" | "failed"
    \* ---- cube.assemble_cube
    cubeIn,      \* input collection: sequence of [date, bands]
    cube,        \* [isNull, bands]: the assembled image
    cpc,         \* "idle" | "start" | "done"
    \* ---- runner.run_pipeline_quick
    cfg,         \* Config flags: [preview, make_parquet, make_csv]
    rpc,         \* the stage the orchestrator is about to run, or how it ended
    steps,       \* RunReport.steps (names)
    errors,      \* RunReport.errors ([where])
    artifacts,   \* RunReport.artifacts ([path, kind])
    files,       \* files written to the export directory during this run
    calls,       \* history: the stages invoked so far, each with its outcome
    \* ---- silo.silo_points_quick and silo._call_api
    scfg,        \* SILOPointsConfig fields that decide the control flow
    spc,         \* position in silo_points_quick, or how it ended
    idx,         \* index of the point being fetched
    out_tables,  \* the per-point tables appended so far
    sfiles,      \* files written by silo_points_quick
    fetched,     \* history: one record per point the loop has dealt with
    apc,         \* position in _call_api, or how it ended
    attempt,     \* k: the _call_api loop index
    resp,        \* r: the last response received
    inflight,    \* HTTP requests issued and not yet answered
    log,         \* history of the current _call_api: its requests and sleeps
    \* ---- sof.sof_points_quick
    fcfg,        \* SOFPointsConfig: families, fractions, depths, stat, flags
    fpc,         \* position in sof_points_quick, or how it ended
    requests,    \* the (family, depth, stat, fraction) requests to issue
    skipped,     \* the combinations skipped with a warning
    ri,          \* index of the request being sampled
    out_cols,    \* history: per request, the attempts made and the column written
    ffiles,      \* files written by sof_points_quick
    \* ---- slga.slga_points_quick
    gcfg,        \* SLGAPointsConfig: attributes, stat, depths, flags
    gpc,         \* position in slga_points_quick, or how it ended
    gcalls,      \* history: the remote calls made, each with its attempts and outcome
    gfiles,      \* files written by slga_points_quick
    \* ---- silo._snap05 and silo._datadrill_row
    row,         \* the point's [lon, lat], in thousandths of a degree
    params,      \* the request's [lon, lat] strings, as hundredths of a degree
    again,       \* the [lon, lat] strings of a request built from the snapped point
    npc,         \* "idle" | "start" | "built" | "rebuilt"
    \* ---- indices.apply_indices
    image,       \* img: the band names of the input image
    names,       \* the requested index names
    outImg,      \* the returned image: [bands, has_20m_indices]
    ipc          \* "idle" | "start" | "done"

mosaicVars == <<ts, monthly, mpc>>
cubeVars   == <<cubeIn, cube, cpc>>
report     == <<steps, errors, artifacts>>
runVars    == <<cfg, rpc, steps, errors, artifacts, files, calls>>
apiVars    == <<apc, attempt, resp, inflight, log>>
siloVars   == <<scfg, spc, idx, out_tables, sfiles, fetched, apiVars>>
sofVars    == <<fcfg, fpc, requests, skipped, ri, out_cols, ffiles>>
slgaVars   == <<gcfg, gpc, gcalls, gfiles>>
samplerVars == <<siloVars, sofVars, slgaVars>>
snapVars   == <<row, params, again, npc>>
indexVars  == <<image, names, outImg, ipc>>
fnVars     == <<snapVars, indexVars>>

(***************************************************************************)
(* Bounds of the model                                                     *)
(***************************************************************************)
MaxDay    == 100   \* acquisition days are 1..MaxDay of the modelled year
MaxImages == 2     \* images in a time series
MaxMonths == 3     \* composites handed to assemble_cube
MaxPoints == 2     \* points in a sampler's points file
MaxRetry  == 2     \* largest configured retry_max

RECURSIVE SumTo(_, _)
SumTo(f, n) == IF n = 0 THEN 0 ELSE f[n] + SumTo(f, n - 1)

SeqsUpTo(S, n) == UNION { [1..k -> S] : k \in 0..n }

(***************************************************************************)
(* Calendar of the modelled year (config.date_start .. date_end, 2018, not *)
(* a leap year).  A date is [m, d]; timestamps have day granularity.       *)
(***************************************************************************)
MonthLen == <<31, 28, 31, 30, 31, 30, 31, 31, 30, 31, 30, 31>>

MonthLabel == <<"2018-01", "2018-02", "2018-03", "2018-04", "2018-05", "2018-06",
                "2018-07", "2018-08", "2018-09", "2018-10", "2018-11", "2018-12">>

\* img.date(): the calendar date of day-of-year n
DateOf(n) ==
    LET m == CHOOSE k \in 1..12 : SumTo(MonthLen, k - 1) < n /\ n <= SumTo(MonthLen, k)
    IN  [m |-> m, d |-> n - SumTo(MonthLen, m - 1)]

\* the timestamp (day-of-year) of a date
DayOf(date) == SumTo(MonthLen, date.m - 1) + date.d

\* ee.Date.advance(i, 'month'): calendar month arithmetic, the day of month
\* clamped to the target month's length
advance(date, i) ==
    [m |-> date.m + i,
     d |-> IF date.d <= MonthLen[date.m + i] THEN date.d ELSE MonthLen[date.m + i]]

\* ee.Date.difference(start, 'month').int(): elapsed time divided by the
\* average month length (365.2425 / 12 = 48699 / 1600 days), truncated
difference_month(end, start) == ((DayOf(end) - DayOf(start)) * 1600) \div 48699

\* d.format('YYYY-MM')
format_YYYY_MM(date) == MonthLabel[date.m]

\* ts.sort('system:time_start', False).first(): the latest acquisition
last_of(s) == CHOOSE x \in {s[i] : i \in 1..Len(s)} : \A i \in 1..Len(s) : s[i] <= x

\* ts.filterDate(d, d.advance(1, 'month')): the images (by position, in
\* collection order) acquired in [from, to): start inclusive, end exclusive
RECURSIVE filterFrom(_, _, _, _)
filterFrom(s, i, from, to) ==
    IF i > Len(s) THEN <<>>
    ELSE (IF DayOf(from) <= s[i] /\ s[i] < DayOf(to) THEN <<i>> ELSE <<>>)
         \o filterFrom(s, i + 1, from, to)

filterDate(s, from, to) == filterFrom(s, 1, from, to)

\* by_month(d): the mosaic of the window starting at d, stamped with d's month
by_month(s, d) ==
    [date |-> format_YYYY_MM(d), members |-> filterDate(s, d, advance(d, 1))]

\* safe_monthly_mosaics(ts) on a non-empty collection
safe_monthly_mosaics(s) ==
    LET first   == s[1]
        last    == last_of(s)
        start   == DateOf(first)
        end     == DateOf(last)
        nmonths == difference_month(end, start)
    IN  [i \in 1..(nmonths + 1) |-> by_month(s, advance(start, i - 1))]

MosaicInit ==
    /\ ts \in SeqsUpTo(1..MaxDay, MaxImages)
    /\ monthly = <<>>
    /\ mpc = "start"

\* timeseries.safe_monthly_mosaics evaluated: ts.first() of an empty collection
\* is null and the evaluation fails
MonthlyMosaics ==
    /\ mpc = "start"
    /\ IF ts = <<>>
          THEN /\ mpc' = "failed"
               /\ monthly' = <<>>
          ELSE /\ mpc' = "done"
               /\ monthly' = safe_monthly_mosaics(ts)
    /\ UNCHANGED <<ts, cubeVars, runVars, samplerVars, fnVars>>

(***************************************************************************)
(* cube.assemble_cube                                                      *)
(***************************************************************************)
BandLists == {<<>>, <<"NDVI">>, <<"NDVI", "NDWI">>}

\* a band named '<band>_<date>', with the '_<dup>' suffix addBands gives to a
\* band whose name is already taken (dup = 0: no suffix)
Band(b, d, k) == [band |-> b, date |-> d, dup |-> k]

\* rename_with_date(img): every band renamed to '<band>_<date>'
rename_with_date(img) ==
    [i \in 1..Len(img.bands) |-> Band(img.bands[i], img.date, 0)]

Names(bs) == {bs[i] : i \in 1..Len(bs)}

\* prev.addBands(img), overwrite = false: the bands of img appended in order;
\* a name already present gets the first free numeric suffix
RECURSIVE addBands(_, _)
addBands(prev, bs) ==
    IF bs = <<>> THEN prev
    ELSE LET b == Head(bs)
             k == CHOOSE n \in 0..Len(prev) :
                     /\ Band(b.band, b.date, n) \notin Names(prev)
                     /\ \A j \in 0..(n - 1) : Band(b.band, b.date, j) \in Names(prev)
         IN  addBands(Append(prev, Band(b.band, b.date, k)), Tail(bs))

\* ImageCollection.iterate(_acc, first): a left fold over every element
RECURSIVE iterate(_, _)
iterate(renamed, prev) ==
    IF renamed = <<>> THEN prev
    ELSE iterate(Tail(renamed), addBands(prev, Head(renamed)))

\* mutant of assemble_cube: an empty collection gives a zero-band image
assemble_cube_ZeroBand(s) ==
    LET renamed == [i \in 1..Len(s) |-> rename_with_date(s[i])]
    IN  [isNull |-> FALSE, bands |-> IF s = <<>> THEN <<>> ELSE iterate(renamed, renamed[1])]

\* assemble_cube(ts): renamed.first() is null on an empty collection
assemble_cube(s) ==
    LET renamed == [i \in 1..Len(s) |-> rename_with_date(s[i])]
    IN  IF s = <<>>
           THEN [isNull |-> TRUE, bands |-> <<>>]
           ELSE [isNull |-> FALSE, bands |-> iterate(renamed, renamed[1])]

\* collections safe_monthly_mosaics can hand over: consecutive month labels
CubeInputs ==
    { [i \in 1..Len(bl) |-> [date |-> MonthLabel[s + i - 1], bands |-> bl[i]]] :
        s \in 1..2, bl \in SeqsUpTo(BandLists, MaxMonths) }

CubeInit ==
    /\ cubeIn \in CubeInputs
    /\ cube = [isNull |-> TRUE, bands |-> <<>>]
    /\ cpc = "start"

AssembleCube ==
    /\ cpc = "start"
    /\ cube' = assemble_cube(cubeIn)
    /\ cpc' = "done"
    /\ UNCHANGED <<cubeIn, mosaicVars, runVars, samplerVars, fnVars>>

(***************************************************************************)
(* runner.run_pipeline_quick and report.RunReport                          *)
(***************************************************************************)
\* mutant of add_step: the step is put in front of the list
add_step_Prepend(name) == steps' = <<name>> \o steps

\* RunReport.add_step / add_error / add_artifact: appends
add_step(name)           == steps' = Append(steps, name)
add_error(where)         == errors' = Append(errors, [where |-> where])
add_artifact(path, kind) == artifacts' = Append(artifacts, [path |-> path, kind |-> kind])

\* os.path.join(out_dir, f"{make_name(area, year, stem)}.{ext}")
Path(stem, ext) == [stem |-> stem, ext |-> ext]

Called(stage, out) == calls' = Append(calls, [stage |-> stage, out |-> out])

ConfigSet == [preview : BOOLEAN, make_parquet : BOOLEAN, make_csv : BOOLEAN]

RunInit ==
    /\ cfg \in ConfigSet
    /\ rpc = "validate"
    /\ steps = <<>> /\ errors = <<>> /\ artifacts = <<>>
    /\ files = {}
    /\ calls = <<>>

\* mutant of OnEarlyError: the `return report` is missing and the run falls
\* through to the exports
OnEarlyError_FallsThrough(where) ==
    /\ add_error(where)
    /\ rpc' = "export_table"
    /\ UNCHANGED <<steps, artifacts>>

\* mutant of OnEarlyError: the exception is re-raised to the caller
OnEarlyError_Reraises(where) ==
    /\ add_error(where)
    /\ rpc' = "raised"
    /\ UNCHANGED <<steps, artifacts>>

\* the except block of an early stage: record the error, return the report
OnEarlyError(where) ==
    /\ add_error(where)
    /\ rpc' = "returned"
    /\ UNCHANGED <<steps, artifacts>>

\* the except block of a late stage: record the error, go on to the stage `next`
OnLateError(where, next) ==
    /\ add_error(where)
    /\ rpc' = next
    /\ UNCHANGED <<steps, artifacts>>

\* lines 15-18: cfg.validate() and the logger set-up, outside every try block
RunValidate ==
    /\ rpc = "validate"
    /\ \E ok \in BOOLEAN :
          /\ Called("validate", IF ok THEN "ok" ELSE "raise")
          /\ rpc' = IF ok THEN "ee_init" ELSE "raised"
    /\ UNCHANGED <<cfg, report, files, fnVars, mosaicVars, cubeVars, samplerVars>>

\* lines 20-26: ee.Initialize()
RunEEInit ==
    /\ rpc = "ee_init"
    /\ \E ok \in BOOLEAN :
          /\ Called("ee.Initialize", IF ok THEN "ok" ELSE "raise")
          /\ IF ok THEN rpc' = "load_roi" /\ UNCHANGED report
                   ELSE OnEarlyError("ee.Initialize")
    /\ UNCHANGED <<cfg, files, fnVars, mosaicVars, cubeVars, samplerVars>>

\* the try block of an early stage: the stage's calls succeed and the step is
\* added, or one of them raises, the error is recorded and the report returned;
\* oks holds the outcomes the stage's input leaves possible
EarlyTry(where, step, next, oks) ==
    \E ok \in oks :
        /\ Called(where, IF ok THEN "ok" ELSE "raise")
        /\ IF ok THEN /\ add_step(step)
                      /\ rpc' = next
                      /\ UNCHANGED <<errors, artifacts>>
                 ELSE OnEarlyError(where)

\* one early stage that hands no collection on
EarlyStage(where, step, next) ==
    /\ EarlyTry(where, step, next, BOOLEAN)
    /\ UNCHANGED <<cfg, files, fnVars, mosaicVars, cubeVars, samplerVars>>

\* lines 28-34
RunLoadRoi ==
    /\ rpc = "load_roi"
    /\ EarlyStage("load_roi", "ROI loaded", "time_series")

\* the acquisition days the archive can hold for the region and the period
RunSeries == {<<>>, <<5>>, <<20, 64>>}

\* lines 36-43: build_s2_collection and compose_time_series build the deferred
\* collection; what it holds is the archive's choice
RunTimeSeries ==
    /\ rpc = "time_series"
    /\ EarlyTry("compose_time_series", "Time series composed", "mosaics", BOOLEAN)
    /\ IF rpc' = "mosaics" THEN ts' \in RunSeries ELSE ts' = ts
    /\ UNCHANGED <<cfg, files, fnVars, monthly, mpc, cubeVars, samplerVars>>

\* lines 45-51: safe_monthly_mosaics(ts) builds the deferred list of composites
\* and evaluates nothing: an empty series gives no composite
RunMosaics ==
    /\ rpc = "mosaics"
    /\ EarlyTry("safe_monthly_mosaics", "Monthly mosaics created", "cube", BOOLEAN)
    /\ IF rpc' = "cube"
          THEN monthly' = IF ts = <<>> THEN <<>> ELSE safe_monthly_mosaics(ts)
          ELSE monthly' = monthly
    /\ UNCHANGED <<cfg, files, fnVars, ts, mpc, cubeVars, samplerVars>>

\* the composites as assemble_cube reads them: the mosaic of a window holding
\* no image has no band
composites(m) ==
    [i \in 1..Len(m) |->
        [date |-> m[i].date, bands |-> IF m[i].members = <<>> THEN <<>> ELSE <<"NDVI">>]]

\* lines 53-59: assemble_cube(monthly), then cube.bandNames().size().getInfo(),
\* the first evaluation of the graph: it raises on a null image, and can raise
\* for a remote failure on any other
RunCube ==
    /\ rpc = "cube"
    /\ cubeIn' = composites(monthly)
    /\ cube' = assemble_cube(composites(monthly))
    /\ EarlyTry("assemble_cube", "Cube assembled", "export_table",
                IF assemble_cube(composites(monthly)).isNull THEN {FALSE} ELSE BOOLEAN)
    /\ UNCHANGED <<cfg, files, fnVars, mosaicVars, cpc, samplerVars>>

\* What one export call can do.  "ok": everything succeeded.  "raise": make_name
\* or ensure_dir raised, outside the export's own try block.  "reduce": the
\* remote reduction (or getInfo) raised.  "parquet" / "csv": that file write
\* raised (possible only when the flag asks for the write).
ExportOutcomes(c) ==
    {"ok", "raise", "reduce"}
        \cup (IF c.make_parquet THEN {"parquet"} ELSE {})
        \cup (IF c.make_csv THEN {"csv"} ELSE {})

\* the files an export has written when it ends with outcome `out`
ExportWrites(c, stem, out) ==
    (IF c.make_parquet /\ out \in {"ok", "csv"} THEN {Path(stem, "parquet")} ELSE {})
        \cup (IF c.make_csv /\ out = "ok" THEN {Path(stem, "csv")} ELSE {})

\* export_cube_table / export_pixel_samples: the value handed back to the
\* orchestrator: parquet_path on success, None when the inner try caught a
\* failure, or the exception itself
ExportReturn(stem, out) ==
    CASE out = "ok"    -> [kind |-> "path", path |-> Path(stem, "parquet")]
      [] out = "raise" -> [kind |-> "exception", path |-> Path(stem, "parquet")]
      [] OTHER         -> [kind |-> "none", path |-> Path(stem, "parquet")]

\* one export stage of the orchestrator: lines 61-66 and 68-73
ExportStage(where, stem, kind, next) ==
    /\ \E out \in ExportOutcomes(cfg) :
          LET p == ExportReturn(stem, out)
          IN  /\ Called(where, out)
              /\ files' = files \cup ExportWrites(cfg, stem, out)
              /\ CASE p.kind = "path" ->
                        /\ add_artifact(p.path, kind)
                        /\ rpc' = next
                        /\ UNCHANGED <<steps, errors>>
                   [] p.kind = "none" ->
                        /\ rpc' = next
                        /\ UNCHANGED report
                   [] OTHER -> OnLateError(where, next)
    /\ UNCHANGED <<cfg, fnVars, mosaicVars, cubeVars, samplerVars>>

AfterExports == IF cfg.preview THEN "preview" ELSE "return"

\* lines 61-66
RunExportTable ==
    /\ rpc = "export_table"
    /\ ExportStage("export_cube_table", "cube_stats", "table", "export_samples")

\* lines 68-73
RunExportSamples ==
    /\ rpc = "export_samples"
    /\ ExportStage("export_pixel_samples", "samples", "samples", AfterExports)

\* lines 75-81: the preview, when cfg.preview
RunPreview ==
    /\ rpc = "preview"
    /\ \E ok \in BOOLEAN :
          /\ Called("preview", IF ok THEN "ok" ELSE "raise")
          /\ IF ok THEN /\ add_step("Preview map ready")
                        /\ rpc' = "return"
                        /\ UNCHANGED <<errors, artifacts>>
                   ELSE OnLateError("preview", "return")
    /\ UNCHANGED <<cfg, files, fnVars, mosaicVars, cubeVars, samplerVars>>

\* line 83: return report
RunReturn ==
    /\ rpc = "return"
    /\ rpc' = "returned"
    /\ UNCHANGED <<cfg, report, files, calls, fnVars, mosaicVars, cubeVars, samplerVars>>

RunNext ==
    \/ RunValidate \/ RunEEInit \/ RunLoadRoi \/ RunTimeSeries \/ RunMosaics
    \/ RunCube \/ RunExportTable \/ RunExportSamples \/ RunPreview \/ RunReturn

(***************************************************************************)
(* silo._call_api and silo.silo_points_quick                               *)
(***************************************************************************)
\* SILOPointsConfig.retry_wait, in milliseconds
RetryWaitMs == 1500

RECURSIVE Pow2(_)
Pow2(n) == IF n = 0 THEN 1 ELSE 2 * Pow2(n - 1)

VALID_CODES == {"R", "X", "N", "V", "D", "E", "S", "C", "L", "J", "H", "G", "F", "T",
                "A", "P", "W", "M"}

\* str(v).strip().upper() on the codes the model draws
Upper(v) == CASE v = "r" -> "R" [] v = " x " -> "X" [] OTHER -> v

\* _validate_vars: TRUE when no code is rejected
validate_vars(vs) == \A i \in 1..Len(vs) : Upper(vs[i]) \in VALID_CODES

VariableChoices == {<<"R", "X", "N">>, <<"r", " x ">>, <<"Q">>, <<"R", "B">>}

\* What the server can answer to one request: a status and a body that
\* pd.read_csv / r.json() can ("table") or cannot turn into rows.
Responses ==
    { [status |-> 200, body |-> "table"],
      [status |-> 200, body |-> "garbage"],
      [status |-> 203, body |-> "table"],
      [status |-> 204, body |-> "empty"],
      [status |-> 503, body |-> "error"] }

NoResponse == [status |-> 0, body |-> "none"]

\* mutant of range_end: one iteration too many
range_end_PlusTwo(retry_max) == retry_max + 2

\* line 84: for k in range(retry_max+1)
range_end(retry_max) == retry_max + 1

\* mutant of is_last: gives up on the first attempt
is_last_First(kk, retry_max) == kk = 0

\* line 88: if k == retry_max
is_last(kk, retry_max) == kk = retry_max

\* r.raise_for_status(): raises for 4xx and 5xx
raises_for_status(r) == r.status >= 400 /\ r.status < 600

GetEv(kk)   == [ev |-> "get", k |-> kk, wait |-> 0]
SleepEv(kk) == [ev |-> "sleep", k |-> kk, wait |-> RetryWaitMs * Pow2(kk)]

\* the requests a _call_api has issued, and the sleeps it has taken
NReq(l)   == Cardinality({j \in 1..Len(l) : l[j].ev = "get"})
NSleep(l) == Cardinality({j \in 1..Len(l) : l[j].ev = "sleep"})

SiloConfigs ==
    [retry_max : 0..MaxRetry, mode : {"datadrill", "station"},
     npoints : 0..MaxPoints, username : {"", "user@example.org"},
     variables : VariableChoices, make_parquet : BOOLEAN, make_csv : BOOLEAN]

ApiIdle == apc = "idle" /\ attempt = 0 /\ resp = NoResponse /\ inflight = 0 /\ log = <<>>

SiloInit ==
    /\ scfg \in SiloConfigs
    /\ spc = "start"
    /\ idx = 0
    /\ out_tables = <<>>
    /\ sfiles = {}
    /\ fetched = <<>>
    /\ ApiIdle

\* lines 107-117: the username check, _validate_vars and _load_points
SiloStart ==
    /\ spc = "start"
    /\ \E load_ok \in BOOLEAN :
          IF scfg.username = "" \/ ~validate_vars(scfg.variables) \/ ~load_ok
             THEN spc' = "raised" /\ idx' = idx
             ELSE /\ idx' = 1
                  /\ spc' = IF scfg.npoints >= 1 THEN "point" ELSE "finish"
    /\ UNCHANGED <<scfg, out_tables, sfiles, fetched, apiVars>>
    /\ UNCHANGED <<fnVars, mosaicVars, cubeVars, runVars, sofVars, slgaVars>>

\* lines 119-128: build url, params and tag for the point and enter _call_api
SiloBeginPoint ==
    /\ spc = "point"
    /\ spc' = "calling"
    /\ attempt' = 0 /\ resp' = NoResponse /\ log' = <<>>
    /\ apc' = IF 0 < range_end(scfg.retry_max) THEN "get" ELSE "raised"
    /\ UNCHANGED <<scfg, idx, out_tables, sfiles, fetched, inflight>>
    /\ UNCHANGED <<fnVars, mosaicVars, cubeVars, runVars, sofVars, slgaVars>>

\* line 85: requests.get is issued
ApiSend ==
    /\ spc = "calling" /\ apc = "get"
    /\ apc' = "inflight"
    /\ inflight' = inflight + 1
    /\ log' = Append(log, GetEv(attempt))
    /\ UNCHANGED <<attempt, resp>>
    /\ UNCHANGED <<scfg, spc, idx, out_tables, sfiles, fetched>>
    /\ UNCHANGED <<fnVars, mosaicVars, cubeVars, runVars, sofVars, slgaVars>>

\* line 85: requests.get raises (connection error, or the 60 s timeout): the
\* exception leaves _call_api
ApiTransportError ==
    /\ spc = "calling" /\ apc = "inflight"
    /\ inflight' = inflight - 1
    /\ apc' = "raised"
    /\ resp' = NoResponse
    /\ UNCHANGED <<attempt, log>>
    /\ UNCHANGED <<scfg, spc, idx, out_tables, sfiles, fetched>>
    /\ UNCHANGED <<fnVars, mosaicVars, cubeVars, runVars, sofVars, slgaVars>>

\* lines 85-91: a response arrives and the rest of the loop body runs
ApiRespond ==
    /\ spc = "calling" /\ apc = "inflight"
    /\ \E r \in Responses :
          /\ resp' = r
          /\ inflight' = inflight - 1
          /\ IF r.status = 200
                THEN apc' = "returned" /\ UNCHANGED <<attempt, log>>
             ELSE IF is_last(attempt, scfg.retry_max) /\ raises_for_status(r)
                THEN apc' = "raised" /\ UNCHANGED <<attempt, log>>
             ELSE /\ log' = Append(log, SleepEv(attempt))
                  /\ IF attempt + 1 < range_end(scfg.retry_max)
                        THEN apc' = "get" /\ attempt' = attempt + 1
                        ELSE apc' = "returned" /\ attempt' = attempt
    /\ UNCHANGED <<scfg, spc, idx, out_tables, sfiles, fetched>>
    /\ UNCHANGED <<fnVars, mosaicVars, cubeVars, runVars, sofVars, slgaVars>>

\* f"DD_{lat:.5f}_{lon:.5f}" / f"ST_{station}"
Tag(mode, pt) == [prefix |-> IF mode = "datadrill" THEN "DD" ELSE "ST", point |-> pt]

\* lines 129-144: the response is parsed and the table appended, or the
\* exception (from _call_api or from the parser) is logged and the point skipped
SiloEndPoint ==
    /\ spc = "calling" /\ apc \in {"returned", "raised"}
    /\ LET parsed == apc = "returned" /\ resp.body = "table"
       IN  /\ out_tables' = IF parsed
                               THEN Append(out_tables,
                                      [source_tag |-> Tag(scfg.mode, idx), point |-> idx])
                               ELSE out_tables
           /\ fetched' = Append(fetched,
                            [point |-> idx, how |-> apc, status |-> resp.status,
                             requests |-> NReq(log), sleeps |-> NSleep(log),
                             appended |-> parsed])
    /\ apc' = "idle"
    /\ idx' = idx + 1
    /\ spc' = IF idx < scfg.npoints THEN "point" ELSE "finish"
    /\ UNCHANGED <<scfg, sfiles, attempt, resp, inflight, log>>
    /\ UNCHANGED <<fnVars, mosaicVars, cubeVars, runVars, sofVars, slgaVars>>

\* lines 146-157: raise when nothing was downloaded, else concatenate and write
SiloFinish ==
    /\ spc = "finish"
    /\ IF out_tables = <<>>
          THEN spc' = "raised" /\ sfiles' = sfiles
          ELSE /\ spc' = "returned"
               /\ sfiles' = (IF scfg.make_parquet THEN {"parquet"} ELSE {})
                               \cup (IF scfg.make_csv THEN {"csv"} ELSE {})
    /\ UNCHANGED <<scfg, idx, out_tables, fetched, apiVars>>
    /\ UNCHANGED <<fnVars, mosaicVars, cubeVars, runVars, sofVars, slgaVars>>

(***************************************************************************)
(* sof.sof_points_quick                                                    *)
(***************************************************************************)
FAMILIES  == {"Fractions_Density", "Proportions", "Stocks"}
FRACTIONS == {"MAOC", "POC", "PyOC"}
DEPTHS    == {"000_005", "005_015", "015_030"}
STATS     == {"EV", "05", "95"}

\* _sof_is_available(family, depth, stat, fraction)
sof_is_available(family, depth, stat, fraction) ==
    CASE family = "Fractions_Density" -> depth \in DEPTHS /\ stat \in STATS
      [] family = "Proportions" ->
            IF depth = "000_005" THEN stat \in {"EV", "05", "95"}
            ELSE IF depth \in {"005_015", "015_030"} THEN stat \in {"05", "95"}
            ELSE FALSE
      [] family = "Stocks" -> depth = "000_030" /\ stat = "EV"
      [] OTHER -> FALSE

\* _sof_url(family, depth, stat, fraction): TRUE when it raises ValueError
sof_url_raises(family, depth, stat, fraction) ==
    IF family = "Stocks" THEN depth # "000_030" \/ stat # "EV"
    ELSE depth \notin DEPTHS \/ stat \notin STATS

Req(fam, d, st, frac) == [family |-> fam, depth |-> d, stat |-> st, fraction |-> frac]

\* lines 119-127: TRUE when the configuration is rejected
sof_cfg_rejected(c) ==
    \/ \E i \in 1..Len(c.families) : c.families[i] \notin FAMILIES
    \/ \E i \in 1..Len(c.fractions) : c.fractions[i] \notin FRACTIONS
    \/ \E i \in 1..Len(c.depths) :
          c.depths[i] \notin DEPTHS /\ "Stocks" \notin {c.families[j] : j \in 1..Len(c.families)}

\* lines 151-165: every combination the configuration asks for, in loop order,
\* each with the verdict of the availability table
\* mutant of ForFractions: the availability table is not consulted
ForFractions_IssuesAll(fam, d, st, fracs) ==
    [i \in 1..Len(fracs) |-> [req |-> Req(fam, d, st, fracs[i]), issue |-> TRUE]]

RECURSIVE ForFractions(_, _, _, _)
ForFractions(fam, d, st, fracs) ==
    IF fracs = <<>> THEN <<>>
    ELSE <<[req |-> Req(fam, d, st, Head(fracs)),
            issue |-> sof_is_available(fam, d, st, Head(fracs))]>>
         \o ForFractions(fam, d, st, Tail(fracs))

RECURSIVE ForDepths(_, _, _, _)
ForDepths(fam, ds, st, fracs) ==
    IF ds = <<>> THEN <<>>
    ELSE ForFractions(fam, Head(ds), st, fracs) \o ForDepths(fam, Tail(ds), st, fracs)

RECURSIVE ForFamilies(_, _)
ForFamilies(fams, c) ==
    IF fams = <<>> THEN <<>>
    ELSE (IF Head(fams) = "Stocks"
             THEN ForFractions("Stocks", "000_030", "EV", c.fractions)
             ELSE ForDepths(Head(fams), c.depths, c.stat, c.fractions))
         \o ForFamilies(Tail(fams), c)

RECURSIVE Select(_, _)
Select(q, flag) ==
    IF q = <<>> THEN <<>>
    ELSE (IF Head(q).issue = flag THEN <<Head(q).req>> ELSE <<>>) \o Select(Tail(q), flag)

FamilyChoices   == {<<"Fractions_Density">>, <<"Proportions">>, <<"Stocks">>,
                    <<"Stocks", "Proportions">>, <<"Bogus">>}
FractionChoices == {<<"MAOC">>, <<"MAOC", "POC">>, <<"Clay">>}
DepthChoices    == {<<"000_005">>, <<"000_005", "015_030">>, <<"000_030">>, <<"999_999">>}
StatChoices     == {"EV", "05", "XX"}

SofConfigs ==
    [families : FamilyChoices, fractions : FractionChoices, depths : DepthChoices,
     stat : StatChoices, make_parquet : BOOLEAN, make_csv : BOOLEAN]

SofInit ==
    /\ fcfg \in SofConfigs
    /\ fpc = "start"
    /\ requests = <<>> /\ skipped = <<>>
    /\ ri = 0
    /\ out_cols = <<>>
    /\ ffiles = {}

\* lines 119-165: validation, _load_points and the request list
SofStart ==
    /\ fpc = "start"
    /\ \E load_ok \in BOOLEAN :
          IF sof_cfg_rejected(fcfg) \/ ~load_ok
             THEN fpc' = "raised" /\ UNCHANGED <<requests, skipped, ri>>
             ELSE LET all == ForFamilies(fcfg.families, fcfg)
                  IN  /\ requests' = Select(all, TRUE)
                      /\ skipped' = Select(all, FALSE)
                      /\ ri' = 1
                      /\ fpc' = IF Select(all, TRUE) = <<>> THEN "write" ELSE "sample"
    /\ UNCHANGED <<fcfg, out_cols, ffiles>>
    /\ UNCHANGED <<fnVars, mosaicVars, cubeVars, runVars, siloVars, slgaVars>>

\* lines 167-178: one request: _sof_url, then one _sample_cog_at_points call;
\* on an exception the column is filled with None and the loop goes on
SofSample ==
    /\ fpc = "sample"
    /\ LET q == requests[ri]
       IN  IF sof_url_raises(q.family, q.depth, q.stat, q.fraction)
              THEN fpc' = "raised" /\ UNCHANGED <<ri, out_cols>>
              ELSE \E ok \in BOOLEAN :
                      /\ out_cols' = Append(out_cols,
                                        [req |-> q, attempts |-> 1,
                                         vals |-> IF ok THEN "sampled" ELSE "None"])
                      /\ ri' = ri + 1
                      /\ fpc' = IF ri < Len(requests) THEN "sample" ELSE "write"
    /\ UNCHANGED <<fcfg, requests, skipped, ffiles>>
    /\ UNCHANGED <<fnVars, mosaicVars, cubeVars, runVars, siloVars, slgaVars>>

\* lines 180-194: write the table and return
SofWrite ==
    /\ fpc = "write"
    /\ ffiles' = (IF fcfg.make_parquet THEN {"parquet"} ELSE {})
                    \cup (IF fcfg.make_csv THEN {"csv"} ELSE {})
    /\ fpc' = "returned"
    /\ UNCHANGED <<fcfg, requests, skipped, ri, out_cols>>
    /\ UNCHANGED <<fnVars, mosaicVars, cubeVars, runVars, siloVars, slgaVars>>

(***************************************************************************)
(* slga.slga_points_quick                                                  *)
(***************************************************************************)
SLGA_ATTRIBUTES == {"SOC", "CLY", "SLT", "SND", "pHc", "AWC", "ECE", "NTO", "PTO",
                    "DES", "DER"}
SLGA_DEPTHS == {"000_005", "005_015", "015_030", "030_060", "060_100", "100_200"}
SLGA_STATS  == {"EV", "05", "95"}

\* _validate_cfg: TRUE when it raises
slga_cfg_rejected(c) ==
    \/ \E i \in 1..Len(c.attributes) : c.attributes[i] \notin SLGA_ATTRIBUTES
    \/ c.stat \notin SLGA_STATS
    \/ \E i \in 1..Len(c.depths) : c.depths[i] \notin SLGA_DEPTHS

SlgaConfigs ==
    [attributes : {<<"SOC">>, <<"SOC", "CLY">>, <<"XYZ">>},
     stat : {"EV", "95", "XX"},
     depths : {<<"000_005">>, <<"000_005", "100_200">>, <<"000_030">>},
     make_parquet : BOOLEAN, make_csv : BOOLEAN]

SlgaInit ==
    /\ gcfg \in SlgaConfigs
    /\ gpc = "start"
    /\ gcalls = <<>>
    /\ gfiles = {}

\* lines 117-123: _validate_cfg, the deferred image and _load_points_fc
SlgaStart ==
    /\ gpc = "start"
    /\ \E load_ok \in BOOLEAN :
          gpc' = IF slga_cfg_rejected(gcfg) \/ ~load_ok THEN "raised" ELSE "first_props"
    /\ UNCHANGED <<gcfg, gcalls, gfiles>>
    /\ UNCHANGED <<fnVars, mosaicVars, cubeVars, runVars, siloVars, sofVars>>

\* one remote evaluation (getInfo), made once; its exception is not caught
RemoteCall(what, next) ==
    \E ok \in BOOLEAN :
        /\ gcalls' = Append(gcalls, [call |-> what, attempts |-> 1, ok |-> ok])
        /\ gpc' = IF ok THEN next ELSE "raised"

\* line 124: first_props = ...keys().getInfo()
SlgaFirstProps ==
    /\ gpc = "first_props"
    /\ RemoteCall("first_props", "sample")
    /\ UNCHANGED <<gcfg, gfiles>>
    /\ UNCHANGED <<fnVars, mosaicVars, cubeVars, runVars, siloVars, sofVars>>

\* lines 126-128: sampleRegions pulled back by _fc_to_dataframe (getInfo)
SlgaSample ==
    /\ gpc = "sample"
    /\ RemoteCall("sampleRegions", "write")
    /\ UNCHANGED <<gcfg, gfiles>>
    /\ UNCHANGED <<fnVars, mosaicVars, cubeVars, runVars, siloVars, sofVars>>

\* lines 130-144: write the table and return
SlgaWrite ==
    /\ gpc = "write"
    /\ gfiles' = (IF gcfg.make_parquet THEN {"parquet"} ELSE {})
                    \cup (IF gcfg.make_csv THEN {"csv"} ELSE {})
    /\ gpc' = "returned"
    /\ UNCHANGED <<gcfg, gcalls>>
    /\ UNCHANGED <<fnVars, mosaicVars, cubeVars, runVars, siloVars, sofVars>>

(***************************************************************************)
(* silo._snap05 and silo._datadrill_row.  Coordinates are integers: the    *)
(* point's in thousandths of a degree, the request strings' ('%.2f') in    *)
(* hundredths.                                                             *)
(***************************************************************************)
MaxMilli == 200    \* coordinates lie within MaxMilli thousandths of a grid origin

\* mutant of round_div: the quotient is truncated downwards
round_div_Floor(x, unit) == {x \div unit}

\* round(x / unit): the integers nearest to the quotient.  The quotient is
\* computed in binary floating point, so for an x exactly halfway between two
\* multiples of the unit it falls on either side of k + 1/2: both neighbours
\* are outcomes.  (\div rounds towards minus infinity, % is non-negative.)
round_div(x, unit) ==
    LET lo == x \div unit
        r  == x % unit
    IN  IF 2 * r < unit THEN {lo}
        ELSE IF 2 * r > unit THEN {lo + 1}
        ELSE {lo, lo + 1}

\* _snap05(x) = round(x / 0.05) * 0.05, in thousandths
snap05(x) == {kk * 50 : kk \in round_div(x, 50)}

\* f"{v:.2f}": v (thousandths) written with two decimals, as hundredths
format_2f(v) == CHOOSE h \in round_div(v, 10) : TRUE

\* float(params["lon"]): the two-decimal string read back, in thousandths
float_of(h) == h * 10

\* the lon / lat strings _datadrill_row can put in the request for a point
datadrill_params(p) ==
    { [lon |-> format_2f(a), lat |-> format_2f(b)] : a \in snap05(p.lon), b \in snap05(p.lat) }

\* the points file: longitudes east of 149 E, latitudes south of the equator
\* and south of 35 S
RowChoices ==
    UNION { { [lon |-> 149000 + a, lat |-> b] : b \in {-35456, -a, a - 35000 - MaxMilli} } :
              a \in 0..MaxMilli }

NoParams == [lon |-> 0, lat |-> 0]

SnapInit ==
    /\ row \in RowChoices
    /\ params = NoParams
    /\ again = NoParams
    /\ npc = "start"

\* lines 93-98: _datadrill_row(row["lon"], row["lat"], ...)
DatadrillRow ==
    /\ npc = "start"
    /\ params' \in datadrill_params(row)
    /\ npc' = "built"
    /\ UNCHANGED <<row, again>>
    /\ UNCHANGED <<indexVars, mosaicVars, cubeVars, runVars, samplerVars>>

\* _datadrill_row on the snapped point (lat_snapped / lon_snapped of line 137)
DatadrillRowAgain ==
    /\ npc = "built"
    /\ again' \in datadrill_params([lon |-> float_of(params.lon), lat |-> float_of(params.lat)])
    /\ npc' = "rebuilt"
    /\ UNCHANGED <<row, params>>
    /\ UNCHANGED <<indexVars, mosaicVars, cubeVars, runVars, samplerVars>>

SnapNext == DatadrillRow \/ DatadrillRowAgain

(***************************************************************************)
(* indices.apply_indices                                                   *)
(***************************************************************************)
MaxNames == 3      \* longest list of requested index names

INDEX_FUNCS == {"NDVI", "EVI", "NDWI", "EVI2", "GNDVI", "GCI", "SAVI", "MSAVI2", "WDRVI",
                "NDRE", "CIre", "NDMI", "NBR", "MNDWI"}

INDICES_REQUIRE_20M == {"NDRE", "CIRE", "NDMI", "NBR", "MNDWI"}

\* Python's None in a request list, and the result of a failed dict.get
None == "<None>"

\* str(s).strip().upper() on the names the model draws
strip_upper(s) ==
    CASE s = "ndvi"   -> "NDVI"
      [] s = " ndwi " -> "NDWI"
      [] s = "cire"   -> "CIRE"
      [] s = "CIre"   -> "CIRE"
      [] s = " "      -> ""
      [] OTHER        -> s

\* lines 52-57: None is left out, every other name is trimmed and uppercased
RECURSIVE names_norm(_)
names_norm(ns) ==
    IF ns = <<>> THEN <<>>
    ELSE (IF Head(ns) = None THEN <<>> ELSE <<strip_upper(Head(ns))>>) \o names_norm(Tail(ns))

\* mutant of canon_get: the lookup returns the uppercased name itself
canon_get_Upper(n) ==
    IF \E key \in INDEX_FUNCS : strip_upper(key) = n THEN n ELSE None

\* line 58 and line 61: canon = {k.upper(): k for k in INDEX_FUNCS}; canon.get(n)
canon_get(n) ==
    IF \E key \in INDEX_FUNCS : strip_upper(key) = n
       THEN CHOOSE key \in INDEX_FUNCS : strip_upper(key) = n
       ELSE None

\* lines 59-64: the loop over names_norm, from the accumulated band list `out`;
\* INDEX_FUNCS[key](img) is one band named key, added with addBands
RECURSIVE add_indices(_, _)
add_indices(out, nn) ==
    IF nn = <<>> THEN out
    ELSE LET key == canon_get(Head(nn))
         IN  IF key = None \/ key = ""
                THEN add_indices(out, Tail(nn))
                ELSE add_indices(addBands(out, <<Band(key, "", 0)>>), Tail(nn))

\* apply_indices(img, names)
apply_indices(img, ns) ==
    LET nn == names_norm(ns)
    IN  [bands |-> add_indices(img, nn),
         has_20m_indices |-> \E i \in 1..Len(nn) : nn[i] \in INDICES_REQUIRE_20M]

\* the image select_s2_bands hands over: the ten canonical band roles, no
\* date suffix
ImageChoices ==
    { [i \in 1..Len(bs) |-> Band(bs[i], "", 0)] :
        bs \in {<<"BLUE", "GREEN", "RED", "NIR", "RE1", "RE2", "RE3", "RE4", "SWIR1", "SWIR2">>} }

NameChoices == {None, "NDVI", "ndvi", "NDWI", " ndwi ", "cire", "NBR", "BOGUS", " "}

IndexInit ==
    /\ image \in ImageChoices
    /\ names \in SeqsUpTo(NameChoices, MaxNames)
    /\ outImg = [bands |-> <<>>, has_20m_indices |-> FALSE]
    /\ ipc = "start"

ApplyIndices ==
    /\ ipc = "start"
    /\ outImg' = apply_indices(image, names)
    /\ ipc' = "done"
    /\ UNCHANGED <<image, names>>
    /\ UNCHANGED <<snapVars, mosaicVars, cubeVars, runVars, samplerVars>>

(***************************************************************************)
(* Idle values and specifications                                          *)
(***************************************************************************)
MosaicIdle == ts = <<>> /\ monthly = <<>> /\ mpc = "idle"
CubeIdle   == cubeIn = <<>> /\ cube = [isNull |-> TRUE, bands |-> <<>>] /\ cpc = "idle"

RunIdle    ==
    /\ cfg = [preview |-> FALSE, make_parquet |-> FALSE, make_csv |-> FALSE]
    /\ rpc = "idle"
    /\ steps = <<>> /\ errors = <<>> /\ artifacts = <<>>
    /\ files = {}
    /\ calls = <<>>

SiloIdle ==
    /\ scfg = [retry_max |-> 0, mode |-> "datadrill", npoints |-> 0, username |-> "",
               variables |-> <<>>, make_parquet |-> FALSE, make_csv |-> FALSE]
    /\ spc = "idle"
    /\ idx = 0
    /\ out_tables = <<>>
    /\ sfiles = {}
    /\ fetched = <<>>
    /\ ApiIdle

SofIdle ==
    /\ fcfg = [families |-> <<>>, fractions |-> <<>>, depths |-> <<>>, stat |-> "EV",
               make_parquet |-> FALSE, make_csv |-> FALSE]
    /\ fpc = "idle"
    /\ requests = <<>> /\ skipped = <<>>
    /\ ri = 0
    /\ out_cols = <<>>
    /\ ffiles = {}

SlgaIdle ==
    /\ gcfg = [attributes |-> <<>>, stat |-> "EV", depths |-> <<>>,
               make_parquet |-> FALSE, make_csv |-> FALSE]
    /\ gpc = "idle"
    /\ gcalls = <<>>
    /\ gfiles = {}

SamplersIdle == SiloIdle /\ SofIdle /\ SlgaIdle

SnapIdle  == row = NoParams /\ params = NoParams /\ again = NoParams /\ npc = "idle"
IndexIdle ==
    /\ image = <<>> /\ names = <<>>
    /\ outImg = [bands |-> <<>>, has_20m_indices |-> FALSE]
    /\ ipc = "idle"

vars == <<mosaicVars, cubeVars, runVars, samplerVars, fnVars>>

InitMosaics ==
    /\ MosaicInit /\ CubeIdle /\ RunIdle /\ SamplersIdle /\ SnapIdle /\ IndexIdle

InitCube ==
    /\ CubeInit /\ MosaicIdle /\ RunIdle /\ SamplersIdle /\ SnapIdle /\ IndexIdle

InitRunner ==
    /\ RunInit /\ MosaicIdle /\ CubeIdle /\ SamplersIdle /\ SnapIdle /\ IndexIdle

SpecMosaics == InitMosaics /\ [][MonthlyMosaics]_vars
SpecCube    == InitCube /\ [][AssembleCube]_vars
SpecRunner  == InitRunner /\ [][RunNext]_vars

\* one of the three sampler pipelines runs
InitSamplers ==
    /\ MosaicIdle /\ CubeIdle /\ RunIdle /\ SnapIdle /\ IndexIdle
    /\ \/ SiloInit /\ SofIdle /\ SlgaIdle
       \/ SofInit /\ SiloIdle /\ SlgaIdle
       \/ SlgaInit /\ SiloIdle /\ SofIdle

SamplersNext ==
    \/ SiloStart \/ SiloBeginPoint \/ ApiSend \/ ApiTransportError \/ ApiRespond
    \/ SiloEndPoint \/ SiloFinish
    \/ SofStart \/ SofSample \/ SofWrite
    \/ SlgaStart \/ SlgaFirstProps \/ SlgaSample \/ SlgaWrite

SpecSamplers == InitSamplers /\ [][SamplersNext]_vars

InitSnap ==
    /\ SnapInit /\ IndexIdle /\ MosaicIdle /\ CubeIdle /\ RunIdle /\ SamplersIdle

SpecSnap == InitSnap /\ [][SnapNext]_vars

InitIndices ==
    /\ IndexInit /\ SnapIdle /\ MosaicIdle /\ CubeIdle /\ RunIdle /\ SamplersIdle

SpecIndices == InitIndices /\ [][ApplyIndices]_vars

(***************************************************************************)
(* Claims about assemble_cube and safe_monthly_mosaics                     *)
(***************************************************************************)
RECURSIVE Flatten(_)
Flatten(ss) == IF ss = <<>> THEN <<>> ELSE Head(ss) \o Flatten(Tail(ss))

\* the earliest acquisition of a series
first_of(s) == CHOOSE x \in {s[i] : i \in 1..Len(s)} : \A i \in 1..Len(s) : x <= s[i]

\* months_between(a, b) counted on calendar months
months_between(a, b) == DateOf(b).m - DateOf(a).m

\* the positions of the images of s acquired in the calendar month labelled lab
InMonth(s, lab) == {i \in 1..Len(s) : format_YYYY_MM(DateOf(s[i])) = lab}

SeqRange(q) == {q[i] : i \in 1..Len(q)}

\* C1: for a non-empty sequence of monthly composites the cube's band list is
\* exactly the concatenation, in sequence order, of each composite's bands
\* renamed '<band>_<month label>', every composite contributing once.
C1_CubeIsConcatenation ==
    (cpc = "done" /\ cubeIn # <<>>) =>
        cube.bands = Flatten([i \in 1..Len(cubeIn) |-> rename_with_date(cubeIn[i])])

\* C2: for a non-empty series there is exactly one composite per calendar
\* month from the month of the earliest to the month of the latest
\* observation: months_between(first, last) + 1 composites.
C2_OneCompositePerCalendarMonth ==
    mpc = "done" => Len(monthly) = months_between(first_of(ts), last_of(ts)) + 1

\* C3: the composite labelled YYYY-MM is built from exactly the images acquired
\* in that calendar month, and every image is a constituent of exactly one
\* composite.
C3_CompositeHoldsItsMonth ==
    mpc = "done" =>
        /\ \A k \in 1..Len(monthly) :
               SeqRange(monthly[k].members) = InMonth(ts, monthly[k].date)
        /\ \A i \in 1..Len(ts) :
               Cardinality({k \in 1..Len(monthly) : i \in SeqRange(monthly[k].members)}) = 1

(***************************************************************************)
(* Claims about run_pipeline_quick                                         *)
(***************************************************************************)
EarlyTags  == {"load_roi", "compose_time_series", "safe_monthly_mosaics", "assemble_cube"}
ExportTags == {"export_cube_table", "export_pixel_samples"}
EarlySteps == <<"ROI loaded", "Time series composed", "Monthly mosaics created", "Cube assembled">>

Prefix(q, n) == [j \in 1..n |-> q[j]]

Failed(i)      == calls[i].out # "ok"
EarlyFailed(i) == calls[i].stage \in EarlyTags /\ Failed(i)
Ended          == rpc \in {"returned", "raised"}

\* C4: when an early stage fails exactly one error is recorded, tagged with
\* that stage, and nothing runs afterwards: the failed stage is the last one
\* invoked, the steps are those of the stages before it, there is no artifact,
\* and the run has returned.
C4_EarlyFailureStopsRun ==
    \A i \in 1..Len(calls) :
        EarlyFailed(i) =>
            /\ i = Len(calls)
            /\ errors = <<[where |-> calls[i].stage]>>
            /\ steps = Prefix(EarlySteps, i - 3)
            /\ artifacts = <<>>
            /\ rpc = "returned"

\* a run cut short by a failing monthly-mosaic stage
C4_Witness ==
    /\ Len(calls) = 5
    /\ calls[5] = [stage |-> "safe_monthly_mosaics", out |-> "raise"]
    /\ rpc = "returned"

\* C5 as stated: a run in which an early stage (ROI, time series, mosaics,
\* cube) fails ends by raising a fatal exception to the caller.
C5_EarlyFailureRaises ==
    \A i \in 1..Len(calls) : (EarlyFailed(i) /\ Ended) => rpc = "raised"

\* C5 amended: every run ends, and it ends in one of two ways.  Either the
\* configuration check (or logger set-up) raises to the caller before any report
\* entry exists, or the run returns the report: cut short with exactly one error
\* when ee.Initialize or an early stage fails, otherwise holding the four early
\* steps with only late-stage errors listed.  An early failure never raises.
C5_RunEndsWithReportOrConfigError ==
    /\ ~Ended => ENABLED RunNext
    /\ rpc = "raised" =>
          /\ calls = <<[stage |-> "validate", out |-> "raise"]>>
          /\ steps = <<>> /\ errors = <<>> /\ artifacts = <<>>
    /\ rpc = "returned" =>
          /\ calls[1] = [stage |-> "validate", out |-> "ok"]
          /\ IF \E i \in 1..Len(calls) :
                   Failed(i) /\ calls[i].stage \in EarlyTags \cup {"ee.Initialize"}
                THEN /\ errors = <<[where |-> calls[Len(calls)].stage]>>
                     /\ steps = Prefix(EarlySteps, IF Len(calls) > 3 THEN Len(calls) - 3 ELSE 0)
                     /\ artifacts = <<>>
                ELSE /\ Prefix(steps, 4) = EarlySteps
                     /\ \A k \in 1..Len(errors) :
                           errors[k].where \in ExportTags \cup {"preview"}

\* a run whose cube assembly failed and which returned its report
C5_Witness ==
    /\ rpc = "returned"
    /\ Len(calls) = 6
    /\ calls[6] = [stage |-> "assemble_cube", out |-> "raise"]
    /\ errors = <<[where |-> "assemble_cube"]>>

\* C6: when the region-mean table export or the pixel-sample export fails
\* (the remote reduction or a file write raises), an error tagged with that
\* export is recorded in the run report, no artifact is recorded for it, and
\* the next stage is still attempted.
C6_ExportFailureIsReported ==
    \A i \in 1..Len(calls) :
        (calls[i].stage \in ExportTags /\ calls[i].out \in {"reduce", "parquet", "csv"}) =>
            /\ \E k \in 1..Len(errors) : errors[k].where = calls[i].stage
            /\ \A k \in 1..Len(artifacts) :
                  artifacts[k].kind # (IF calls[i].stage = "export_cube_table"
                                          THEN "table" ELSE "samples")
            /\ rpc = "returned" =>
                  (i < Len(calls) \/ (calls[i].stage = "export_pixel_samples" /\ ~cfg.preview))

(***************************************************************************)
(* Claims about the sampler pipelines                                      *)
(***************************************************************************)
\* a point was fetched successfully: _call_api got a 200 and the body parsed
Succeeded(f) == f.how = "returned" /\ f.status = 200 /\ f.appended

RECURSIVE SuccessRows(_, _)
SuccessRows(fs, mode) ==
    IF fs = <<>> THEN <<>>
    ELSE (IF Succeeded(Head(fs))
             THEN <<[source_tag |-> Tag(mode, Head(fs).point), point |-> Head(fs).point]>>
             ELSE <<>>)
         \o SuccessRows(Tail(fs), mode)

SiloEnded == spc \in {"returned", "raised"} /\ idx >= 1
ApiEnded  == spc = "calling" /\ apc \in {"returned", "raised"}

\* C7: once the points are loaded, every point is fetched in turn whatever
\* happened to the ones before it; with no successful point the pipeline raises
\* and writes no file; otherwise it returns the table of exactly the successful
\* points' rows, each tagged with its point's source tag, in input order.
C7_TableHoldsExactlySuccessfulPoints ==
    SiloEnded =>
        /\ Len(fetched) = scfg.npoints
        /\ \A i \in 1..Len(fetched) : fetched[i].point = i
        /\ IF \E i \in 1..Len(fetched) : Succeeded(fetched[i])
              THEN spc = "returned" /\ out_tables = SuccessRows(fetched, scfg.mode)
              ELSE spc = "raised" /\ sfiles = {} /\ out_tables = <<>>

\* C8 as stated (for a positive retry_max): _call_api never issues more than
\* retry_max requests.
C8_RequestsAtMostRetryMax ==
    scfg.retry_max >= 1 => NReq(log) <= scfg.retry_max

\* C8 amended: _call_api always terminates and issues at most retry_max + 1
\* requests (one first attempt and up to retry_max retries): the loop index
\* never passes retry_max, the call's history never grows past retry_max + 1
\* requests with one sleep each, and a call that has not ended can take a step.
C8_RequestsAtMostRetryMaxPlusOne ==
    /\ NReq(log) <= scfg.retry_max + 1
    /\ NSleep(log) <= NReq(log)
    /\ attempt <= scfg.retry_max
    /\ \A i \in 1..Len(fetched) : fetched[i].requests <= scfg.retry_max + 1
    /\ (spc = "calling" /\ apc \in {"get", "inflight"}) =>
          ENABLED (ApiSend \/ ApiTransportError \/ ApiRespond)

\* a call that used every attempt and raised on the last 503
C8_Witness ==
    /\ ApiEnded /\ apc = "raised"
    /\ scfg.retry_max >= 1
    /\ resp.status = 503
    /\ NReq(log) = scfg.retry_max + 1

\* C9: each attempt is one HTTP call, at most one request is in flight, and a
\* backoff sleep happens only between two consecutive attempts: the sleep after
\* failed attempt k lasts retry_wait * 2^k and is followed by attempt k + 1, so
\* a call that has ended did not sleep after its last attempt.
C9_SleepOnlyBetweenAttempts ==
    /\ inflight <= 1
    /\ \A j \in 1..Len(log) :
          /\ log[j].ev = "get" => log[j].k = NReq(Prefix(log, j)) - 1
          /\ log[j].ev = "sleep" =>
                /\ j > 1 /\ log[j - 1] = GetEv(log[j].k)
                /\ log[j].wait = RetryWaitMs * Pow2(log[j].k)
    /\ ApiEnded => log[Len(log)].ev = "get"

SiloOutsideAllowList(c) == \E i \in 1..Len(c.variables) : Upper(c.variables[i]) \notin VALID_CODES

\* (the Stocks rasters' own depth, 000_030, is not counted as invalid)
SofOutsideAllowList(c) ==
    \/ \E i \in 1..Len(c.families) : c.families[i] \notin FAMILIES
    \/ \E i \in 1..Len(c.fractions) : c.fractions[i] \notin FRACTIONS
    \/ \E i \in 1..Len(c.depths) : c.depths[i] \notin DEPTHS \cup {"000_030"}
    \/ c.stat \notin STATS

SlgaOutsideAllowList(c) ==
    \/ \E i \in 1..Len(c.attributes) : c.attributes[i] \notin SLGA_ATTRIBUTES
    \/ \E i \in 1..Len(c.depths) : c.depths[i] \notin SLGA_DEPTHS
    \/ c.stat \notin SLGA_STATS

\* C11: in each sampler pipeline a requested parameter outside the allow-list
\* makes the pipeline raise before any remote request is issued and before
\* any output table is written, whatever the other configuration values are.
C11_InvalidParameterRaisesFirst ==
    /\ (spc \notin {"idle", "start"} /\ SiloOutsideAllowList(scfg)) =>
          (spc = "raised" /\ fetched = <<>> /\ log = <<>> /\ sfiles = {})
    /\ (fpc \notin {"idle", "start"} /\ SofOutsideAllowList(fcfg)) =>
          (fpc = "raised" /\ out_cols = <<>> /\ ffiles = {})
    /\ (gpc \notin {"idle", "start"} /\ SlgaOutsideAllowList(gcfg)) =>
          (gpc = "raised" /\ gcalls = <<>> /\ gfiles = {})

SofListed == fpc \in {"sample", "write", "returned"}

\* the combinations a configuration asks for: families x depths x fractions,
\* at the configured statistic
SofAsked(c) ==
    { Req(c.families[i], c.depths[j], c.stat, c.fractions[l]) :
        i \in 1..Len(c.families), j \in 1..Len(c.depths), l \in 1..Len(c.fractions) }

Published(q) == sof_is_available(q.family, q.depth, q.stat, q.fraction)

\* C12 as stated: a request is issued only if the availability table publishes
\* it, and every combination the configuration asks for that the table does
\* not publish is skipped with a warning and never requested.
C12_UnpublishedSkippedWithWarning ==
    SofListed =>
        /\ \A i \in 1..Len(requests) : Published(requests[i])
        /\ \A q \in SofAsked(fcfg) :
              ~Published(q) => (q \in SeqRange(skipped) /\ q \notin SeqRange(requests))

\* C12 amended: every request issued is published by the availability table
\* and only listed requests are sampled; for the families other than Stocks
\* each asked combination is issued when published and otherwise skipped with
\* a warning and never issued (Proportions / 000_005 / 05 is issued,
\* Proportions / 015_030 / EV is skipped); for Stocks the configured depths
\* and statistic are ignored: 000_030 / EV is issued for each fraction, no
\* other Stocks raster is ever issued and no warning is logged.
C12_IssuedOnlyIfPublished ==
    SofListed =>
        /\ \A i \in 1..Len(requests) : Published(requests[i])
        /\ \A i \in 1..Len(out_cols) : out_cols[i].req = requests[i]
        /\ SeqRange(requests) \cap SeqRange(skipped) = {}
        /\ \A q \in SofAsked(fcfg) :
              q.family # "Stocks" =>
                  IF Published(q)
                     THEN q \in SeqRange(requests) /\ q \notin SeqRange(skipped)
                     ELSE q \in SeqRange(skipped) /\ q \notin SeqRange(requests)
        /\ \A q \in SeqRange(requests) \cup SeqRange(skipped) :
              IF q.family = "Stocks"
                 THEN q.depth = "000_030" /\ q.stat = "EV" /\ q \in SeqRange(requests)
                 ELSE q \in SofAsked(fcfg)
        /\ "Stocks" \in SeqRange(fcfg.families) =>
              \A l \in 1..Len(fcfg.fractions) :
                  Req("Stocks", "000_030", "EV", fcfg.fractions[l]) \in SeqRange(requests)
        /\ (fcfg.stat = "05" /\ Req("Proportions", "000_005", "05", "MAOC") \in SofAsked(fcfg))
              => Req("Proportions", "000_005", "05", "MAOC") \in SeqRange(requests)
        /\ (fcfg.stat = "EV" /\ Req("Proportions", "015_030", "EV", "MAOC") \in SofAsked(fcfg))
              => Req("Proportions", "015_030", "EV", "MAOC") \in SeqRange(skipped)

\* a finished run that asked for Stocks and Proportions at 000_005 and 015_030,
\* statistic EV: Proportions / 015_030 / EV was skipped, the two others sampled
C12_Witness ==
    /\ fpc = "returned"
    /\ fcfg.families = <<"Stocks", "Proportions">>
    /\ fcfg.depths = <<"000_005", "015_030">>
    /\ fcfg.stat = "EV"
    /\ Req("Proportions", "015_030", "EV", "MAOC") \in SeqRange(skipped)
    /\ Req("Proportions", "000_005", "EV", "MAOC") \in SeqRange(requests)
    /\ Req("Stocks", "000_030", "EV", "MAOC") \in SeqRange(requests)
    /\ Len(out_cols) = Len(requests)

(***************************************************************************)
(* Claims about the coordinate snap and the index library                  *)
(***************************************************************************)
Abs(n) == IF n < 0 THEN -n ELSE n

\* h (hundredths) is a multiple of 0.05 and no multiple of 0.05 is nearer to x
\* (thousandths)
NearestMultiple(h, x) ==
    /\ (h * 10) % 50 = 0
    /\ 2 * Abs(h * 10 - x) <= 50

\* C13: the coordinate sent in the request (_snap05, then '%.2f') is the
\* multiple of 0.05 nearest to the point's coordinate, so (149.123, -35.456)
\* is sent as (149.10, -35.45); and snapping is idempotent: a request built
\* from the snapped coordinates carries the same values.
C13_SnapToNearestAndIdempotent ==
    /\ npc \in {"built", "rebuilt"} =>
          /\ NearestMultiple(params.lon, row.lon)
          /\ NearestMultiple(params.lat, row.lat)
          /\ row = [lon |-> 149123, lat |-> -35456] => params = [lon |-> 14910, lat |-> -3545]
    /\ npc = "rebuilt" => again = params

\* the point (149.123, -35.456) snapped and snapped again
C13_Witness ==
    /\ npc = "rebuilt"
    /\ row = [lon |-> 149123, lat |-> -35456]
    /\ params = [lon |-> 14910, lat |-> -3545]
    /\ again = params

\* the supported index a requested name stands for (case-insensitively, after
\* trimming), or None
Canonical(s) ==
    CASE s \in {"NDVI", "ndvi"}   -> "NDVI"
      [] s \in {"NDWI", " ndwi "} -> "NDWI"
      [] s \in {"cire", "CIre"}   -> "CIre"
      [] s = "NBR"                -> "NBR"
      [] OTHER                    -> None

\* the new bands of the returned image: those after the input image's own
NewBands == SubSeq(outImg.bands, Len(image) + 1, Len(outImg.bands))

\* the canonical names of the requests that match a supported index, in
\* request order
RECURSIVE Matching(_)
Matching(ns) ==
    IF ns = <<>> THEN <<>>
    ELSE (IF Canonical(Head(ns)) = None THEN <<>> ELSE <<Canonical(Head(ns))>>)
         \o Matching(Tail(ns))

\* how often c occurs among the first n elements of q
Occurrences(q, n, c) == Cardinality({j \in 1..n : q[j] = c})

\* C14 as stated: for any request list the new bands are exactly one band per
\* requested name that matches a supported index, each named with the
\* canonical name, in request order; None and unknown names add nothing.
C14_OneCanonicalBandPerName ==
    ipc = "done" =>
        /\ SubSeq(outImg.bands, 1, Len(image)) = image
        /\ NewBands = [j \in 1..Len(Matching(names)) |-> Band(Matching(names)[j], "", 0)]

\* C14 amended: the input bands are kept, and the new bands are one per
\* requested name that matches a supported index, in request order; the first
\* request of an index gets the canonical name ('cire' gives 'CIre') and the
\* n-th repetition of the same index gets that name with the suffix _n; None
\* and unknown names add nothing and do not change the other bands.
C14_CanonicalBandPerDistinctName ==
    ipc = "done" =>
        /\ SubSeq(outImg.bands, 1, Len(image)) = image
        /\ NewBands = [j \in 1..Len(Matching(names)) |->
                          Band(Matching(names)[j], "",
                               Occurrences(Matching(names), j - 1, Matching(names)[j]))]
        /\ names = <<"NDVI", "BOGUS", "NDWI">> =>
              NewBands = <<Band("NDVI", "", 0), Band("NDWI", "", 0)>>

\* the request ["cire", None, "BOGUS"] answered with the single new band CIre
C14_Witness ==
    /\ ipc = "done"
    /\ names = <<"cire", None, "BOGUS">>
    /\ NewBands = <<Band("CIre", "", 0)>>

(***************************************************************************)
(* Claims about the run on an empty series, the report and the artifacts   *)
(***************************************************************************)
CubeStageRan == \E i \in 1..Len(calls) : calls[i].stage = "assemble_cube"

\* C15: cube assembly on an empty monthly sequence fails instead of giving a
\* zero-band image: the image is null and its first evaluation raises, so the
\* run records exactly one error, under assemble_cube, has no 'Cube assembled'
\* step, attempts no export, records no artifact, writes no file and returns.
C15_EmptyCubeFailsInRun ==
    (CubeStageRan /\ cubeIn = <<>>) =>
        /\ cube.isNull /\ cube.bands = <<>>
        /\ calls[Len(calls)] = [stage |-> "assemble_cube", out |-> "raise"]
        /\ errors = <<[where |-> "assemble_cube"]>>
        /\ steps = Prefix(EarlySteps, 3)
        /\ \A i \in 1..Len(calls) : calls[i].stage \notin ExportTags
        /\ artifacts = <<>> /\ files = {}
        /\ rpc = "returned"

\* a run whose series was empty: the mosaics stage recorded its step and the
\* cube stage failed
C15_Witness ==
    /\ CubeStageRan
    /\ ts = <<>> /\ monthly = <<>> /\ cubeIn = <<>>
    /\ steps = Prefix(EarlySteps, 3)
    /\ errors = <<[where |-> "assemble_cube"]>>
    /\ rpc = "returned"

(***************************************************************************)
(* Claims about the time bounds of the monthly mosaics and about the SILO  *)
(* request loop                                                            *)
(***************************************************************************)
\* C16: the month sequence starts at the month of the earliest observation of
\* the series, whatever the collection order, so every image older than the
\* collection's first element is a constituent of some composite.
C16_BoundsAreMinAndMax ==
    mpc = "done" =>
        /\ monthly[1].date = format_YYYY_MM(DateOf(first_of(ts)))
        /\ \A i \in 1..Len(ts) :
              ts[i] < ts[1] => \E n \in 1..Len(monthly) : i \in SeqRange(monthly[n].members)

\* C17: _call_api ends in one of two ways: it returns a response with status
\* 200, or it raises after the final attempt's response; a response with
\* another status is never given back and never parsed into table rows.
C17_ReturnsOnly200OrRaises ==
    /\ (ApiEnded /\ apc = "returned") => resp.status = 200
    /\ (ApiEnded /\ apc = "raised" /\ resp # NoResponse) =>
          (attempt = scfg.retry_max /\ resp.status # 200)
    /\ \A i \in 1..Len(fetched) :
          /\ fetched[i].how = "returned" => fetched[i].status = 200
          /\ fetched[i].appended => fetched[i].status = 200

\* C18: an attempt that fails by raising (connection error, socket timeout) is
\* retried like a non-200 answer: a call that ends by raising has used all
\* retry_max + 1 attempts, with a backoff sleep between them.
C18_RaisingAttemptIsRetried ==
    /\ (ApiEnded /\ apc = "raised") =>
          (NReq(log) = scfg.retry_max + 1 /\ NSleep(log) >= scfg.retry_max)
    /\ \A i \in 1..Len(fetched) :
          fetched[i].how = "raised" =>
              (fetched[i].requests = scfg.retry_max + 1 /\ fetched[i].sleeps >= scfg.retry_max)

(***************************************************************************)
(* Claims about the run report                                             *)
(***************************************************************************)
AllSteps == EarlySteps \o <<"Preview map ready">>

IsPrefixOf(q, r) == Len(q) <= Len(r) /\ \A j \in 1..Len(q) : q[j] = r[j]

StepsInOrder ==
    /\ Len(steps) <= Len(AllSteps)
    /\ steps = Prefix(AllSteps, Len(steps))
    /\ artifacts # <<>> => Len(steps) >= 4

AppendOnly ==
    /\ IsPrefixOf(steps, steps')
    /\ IsPrefixOf(errors, errors')
    /\ IsPrefixOf(artifacts, artifacts')

\* C19: at every point of every run the step list is a prefix of [ROI loaded,
\* Time series composed, Monthly mosaics created, Cube assembled, Preview map
\* ready], an artifact is recorded only after 'Cube assembled', and every step
\* of the run only appends to the report's steps, errors and artifacts.
C19_ReportIsOrderedAndAppendOnly == []StepsInOrder /\ [][AppendOnly]_vars

\* a complete run: five steps and both artifacts
C19_Witness ==
    /\ rpc = "returned"
    /\ steps = AllSteps
    /\ Len(artifacts) = 2
    /\ errors = <<>>

\* C20: every artifact path recorded in the run report names a file that the
\* export wrote during this run, whatever the make_parquet and make_csv flags
\* and the export outcomes are.
C20_ArtifactsNameWrittenFiles ==
    \A n \in 1..Len(artifacts) : artifacts[n].path \in files

====
